---- MODULE Spec2Model ----
(***************************************************************************)
(* Model of generate.py: the Instagram post generation pipeline.           *)
(*                                                                         *)
(* Texts (URLs, model responses, file contents) are sequences of pieces.   *)
(* A piece is one character, except that a few fixed literals the code     *)
(* only ever treats as a whole are one piece each: "instagram.com" (the    *)
(* literal of the URL pattern), "json" (the fence tag of the fence         *)
(* pattern), "null" and "true" (JSON literals), and the fixed lines of the *)
(* context file.                                                           *)
(***************************************************************************)
EXTENDS Naturals, Sequences, FiniteSets, TLC

VARIABLES
  pc,             \* position of the current run in main / its callees
  runs,           \* number of runs (or handler calls) started so far
  url,            \* instagram_profile_url of the current run
  num,            \* num_posts of the current run
  username,       \* local `username` of analyze_instagram_profile
  bio,            \* local `bio` of analyze_instagram_profile
  postsData,      \* local `posts_data` of analyze_instagram_profile
  contextFile,    \* `context_file` returned by analyze_instagram_profile
  cache,          \* the file instagram_context.txt
  response,       \* message content returned by the chat completion
  resultText,     \* local `result_text` of generate_new_posts
  diag,           \* text printed after "[ERROR] Could not parse JSON. Raw output:"
  posts,          \* value returned by generate_new_posts
  store,          \* the file generated_posts.json
  err,            \* exception that ended the run ("None" while none)
  scrapeCalls,    \* calls made to instaloader in the current run
  modelCalls,     \* calls made to the OpenAI client in the current run
  hist,           \* history: the steps of the current run, in order
  cacheAtStart,   \* history: the cache file when the current run started
  storeAtStart,   \* history: the store file when the current run/call started
  appended,       \* history: everything handed to the store so far, in order
  storeAtInit     \* history: the store file before the first run/call

vars == <<pc, runs, url, num, username, bio, postsData, contextFile, cache,
          response, resultText, diag, posts, store, err, scrapeCalls, modelCalls,
          hist, cacheAtStart, storeAtStart, appended, storeAtInit>>

----------------------------------------------------------------------------
(* Bounds of the model.                                                    *)

MaxUrlLen == 5
MaxRawLen == 4
MaxBody == 3
MaxRuns == 2
MaxPosts == 2
MaxCalls == 2
MaxNew == 2

----------------------------------------------------------------------------
(* Pieces and generic text helpers.                                        *)

LF == "\n"
SP == " "
QUOTE == "\""
\* the backtick character (the string lexer of TLA+ does not take it literally)
TICK == "BACKTICK"
Marker == "instagram.com"
JsonTag == "json"

SeqsUpTo(S, n) == UNION {[1..k -> S] : k \in 0..n}

IsPrefix(s, t) == Len(s) <= Len(t) /\ SubSeq(t, 1, Len(s)) = s

\* str.isspace / the regex class \s, on the pieces of the model
IsSpace(c) == c \in {LF, SP}

RECURSIVE LStrip(_)
LStrip(s) == IF s # <<>> /\ IsSpace(Head(s)) THEN LStrip(Tail(s)) ELSE s

RECURSIVE RStrip(_)
RStrip(s) ==
  IF s # <<>> /\ IsSpace(s[Len(s)]) THEN RStrip(SubSeq(s, 1, Len(s) - 1)) ELSE s

\* str.strip()
Strip(s) == RStrip(LStrip(s))

----------------------------------------------------------------------------
(* parse_instagram_username                                                *)

UrlDelims == {"/", "?", "#"}

\* end (exclusive) of the greedy run [^/?#]+ that starts at i
RECURSIVE RunEnd(_, _)
RunEnd(u, i) ==
  IF i <= Len(u) /\ u[i] \notin UrlDelims THEN RunEnd(u, i + 1) ELSE i

\* mutant: re.match in place of re.search, a match at the start only
UrlMatchAtAnchored(u, i) ==
  /\ i = 1
  /\ i + 2 <= Len(u)
  /\ u[i] = Marker
  /\ u[i + 1] = "/"
  /\ u[i + 2] \notin UrlDelims

\* whether the pattern instagram\.com/([^/?#]+) matches at position i
UrlMatchAt(u, i) ==
  /\ i + 2 <= Len(u)
  /\ u[i] = Marker
  /\ u[i + 1] = "/"
  /\ u[i + 2] \notin UrlDelims

\* re.search: the leftmost position where the pattern matches, 0 when none
RECURSIVE UrlSearchFrom(_, _)
UrlSearchFrom(u, i) ==
  IF i > Len(u) THEN 0
  ELSE IF UrlMatchAt(u, i) THEN i
  ELSE UrlSearchFrom(u, i + 1)

\* the function's outcome: match.group(1), or ValueError
parse_instagram_username(u) ==
  LET i == UrlSearchFrom(u, 1)
  IN  IF i # 0
      THEN [ok |-> TRUE, name |-> SubSeq(u, i + 2, RunEnd(u, i + 2) - 1)]
      ELSE [ok |-> FALSE, name |-> <<>>]

----------------------------------------------------------------------------
(* JSON values and the json module (json.loads, json.load, json.dump).     *)
(* A value is [k |-> kind, c |-> content]: the digits of a number, the     *)
(* pieces of a string, the items of an array, the <<key, value>> members   *)
(* of an object (a Python dict: insertion order, one member per key).      *)

JNull == [k |-> "null", c |-> <<>>]
JTrue == [k |-> "bool", c |-> <<>>]
JNum(d) == [k |-> "number", c |-> d]
JStr(s) == [k |-> "string", c |-> s]
JArr(items) == [k |-> "array", c |-> items]
JObj(members) == [k |-> "object", c |-> members]
NoValue == [k |-> "none", c |-> <<>>]

ParseError == [ok |-> FALSE, v |-> NoValue, next |-> 0]
Parsed(v, n) == [ok |-> TRUE, v |-> v, next |-> n]

\* json.decoder.WHITESPACE: " \t\n\r"
IsJsonSpace(c) == c \in {LF, SP}

RECURSIVE SkipWs(_, _)
SkipWs(t, i) == IF i <= Len(t) /\ IsJsonSpace(t[i]) THEN SkipWs(t, i + 1) ELSE i

\* position of the quote that closes a string whose content starts at i;
\* 0 when the text ends, or a control character comes, before it (strict)
RECURSIVE StringEnd(_, _)
StringEnd(t, i) ==
  IF i > Len(t) \/ t[i] = LF THEN 0
  ELSE IF t[i] = QUOTE THEN i
  ELSE StringEnd(t, i + 1)

RECURSIVE DigitsEnd(_, _)
DigitsEnd(t, i) == IF i <= Len(t) /\ t[i] = "1" THEN DigitsEnd(t, i + 1) ELSE i

\* dict[key] = value: a repeated key keeps its place and takes the new value
SetMember(members, key, v) ==
  IF \E n \in 1..Len(members) : members[n][1] = key
  THEN [n \in 1..Len(members) |->
          IF members[n][1] = key THEN <<key, v>> ELSE members[n]]
  ELSE Append(members, <<key, v>>)

RECURSIVE ScanOnce(_, _), ParseItems(_, _, _), ParseMembers(_, _, _)

\* json.scanner.py_make_scanner._scan_once: the value that starts at i
ScanOnce(t, i) ==
  IF i > Len(t) THEN ParseError
  ELSE IF t[i] = QUOTE THEN
    LET e == StringEnd(t, i + 1)
    IN  IF e = 0 THEN ParseError ELSE Parsed(JStr(SubSeq(t, i + 1, e - 1)), e + 1)
  ELSE IF t[i] = "{" THEN
    LET j == SkipWs(t, i + 1)
    IN  IF j <= Len(t) /\ t[j] = "}" THEN Parsed(JObj(<<>>), j + 1)
        ELSE ParseMembers(t, j, <<>>)
  ELSE IF t[i] = "[" THEN
    LET j == SkipWs(t, i + 1)
    IN  IF j <= Len(t) /\ t[j] = "]" THEN Parsed(JArr(<<>>), j + 1)
        ELSE ParseItems(t, j, <<>>)
  ELSE IF t[i] = "null" THEN Parsed(JNull, i + 1)
  ELSE IF t[i] = "true" THEN Parsed(JTrue, i + 1)
  ELSE IF t[i] = "1" THEN
    LET e == DigitsEnd(t, i)
    IN  Parsed(JNum(SubSeq(t, i, e - 1)), e)
  ELSE ParseError

\* json.decoder.JSONArray, from the first item on
ParseItems(t, i, acc) ==
  LET r == ScanOnce(t, i)
  IN  IF ~r.ok THEN ParseError
      ELSE LET j == SkipWs(t, r.next)
               items == Append(acc, r.v)
           IN  IF j > Len(t) THEN ParseError
               ELSE IF t[j] = "]" THEN Parsed(JArr(items), j + 1)
               ELSE IF t[j] = "," THEN ParseItems(t, SkipWs(t, j + 1), items)
               ELSE ParseError

\* json.decoder.JSONObject, from the first key on
ParseMembers(t, i, acc) ==
  IF i > Len(t) \/ t[i] # QUOTE THEN ParseError
  ELSE
    LET e == StringEnd(t, i + 1)
    IN  IF e = 0 THEN ParseError
        ELSE
          LET key == SubSeq(t, i + 1, e - 1)
              j == SkipWs(t, e + 1)
          IN  IF j > Len(t) \/ t[j] # ":" THEN ParseError
              ELSE
                LET r == ScanOnce(t, SkipWs(t, j + 1))
                IN  IF ~r.ok THEN ParseError
                    ELSE
                      LET n == SkipWs(t, r.next)
                          members == SetMember(acc, key, r.v)
                      IN  IF n > Len(t) THEN ParseError
                          ELSE IF t[n] = "}" THEN Parsed(JObj(members), n + 1)
                          ELSE IF t[n] = ","
                            THEN ParseMembers(t, SkipWs(t, n + 1), members)
                          ELSE ParseError

\* json.loads / JSONDecoder.decode: one value, white space around it, no more
JsonLoads(t) ==
  LET r == ScanOnce(t, SkipWs(t, 1))
  IN  IF r.ok /\ SkipWs(t, r.next) = Len(t) + 1
      THEN [ok |-> TRUE, v |-> r.v]
      ELSE [ok |-> FALSE, v |-> NoValue]

Indent(level) == [n \in 1..(2 * level) |-> SP]

RECURSIVE Encode(_, _), EncodeItems(_, _), EncodeMembers(_, _)

\* json.encoder._make_iterencode with indent=2 (separators "," and ": "),
\* ensure_ascii=False; level is the nesting depth of the value
Encode(v, level) ==
  IF v.k = "null" THEN <<"null">>
  ELSE IF v.k = "bool" THEN <<"true">>
  ELSE IF v.k = "number" THEN v.c
  ELSE IF v.k = "string" THEN <<QUOTE>> \o v.c \o <<QUOTE>>
  ELSE IF v.k = "array" THEN
    IF v.c = <<>> THEN <<"[", "]">>
    ELSE <<"[">> \o EncodeItems(v.c, level + 1) \o <<LF>> \o Indent(level) \o <<"]">>
  ELSE
    IF v.c = <<>> THEN <<"{", "}">>
    ELSE <<"{">> \o EncodeMembers(v.c, level + 1) \o <<LF>> \o Indent(level) \o <<"}">>

EncodeItems(items, level) ==
  IF items = <<>> THEN <<>>
  ELSE <<LF>> \o Indent(level) \o Encode(Head(items), level)
       \o (IF Len(items) > 1 THEN <<",">> ELSE <<>>)
       \o EncodeItems(Tail(items), level)

EncodeMembers(members, level) ==
  IF members = <<>> THEN <<>>
  ELSE <<LF>> \o Indent(level) \o <<QUOTE>> \o Head(members)[1] \o <<QUOTE, ":", SP>>
       \o Encode(Head(members)[2], level)
       \o (IF Len(members) > 1 THEN <<",">> ELSE <<>>)
       \o EncodeMembers(Tail(members), level)

\* json.dump(obj, f, ensure_ascii=False, indent=2)
JsonDump(v) == Encode(v, 0)

----------------------------------------------------------------------------
(* Files.                                                                  *)

NoFile == [exists |-> FALSE, text |-> <<>>]
File(text) == [exists |-> TRUE, text |-> text]

\* a byte sequence that is not UTF-8: reading the file raises UnicodeDecodeError
BadByte == "\\xff"

----------------------------------------------------------------------------
(* generate_new_posts: post-processing of the response                     *)

Fence == <<TICK, TICK, TICK>>

HasFenceAt(t, i) == i + 2 <= Len(t) /\ SubSeq(t, i, i + 2) = Fence

\* str.startswith("```")
StartsWithFence(t) == HasFenceAt(t, 1)

RECURSIVE SkipSpace(_, _)
SkipSpace(t, i) == IF i <= Len(t) /\ IsSpace(t[i]) THEN SkipSpace(t, i + 1) ELSE i

\* the lazy (.*?) followed by \s*```: the least e >= i such that, after the
\* white space at e, a fence comes; 0 when there is none
RECURSIVE LazyEnd(_, _)
LazyEnd(t, e) ==
  IF e > Len(t) THEN 0
  ELSE IF HasFenceAt(t, SkipSpace(t, e)) THEN e
  ELSE LazyEnd(t, e + 1)

NoMatch == [found |-> FALSE, group |-> <<>>]

\* \s*(.*?)\s*``` from position a on. The greedy \s* is never given back with
\* success: a shorter \s* leaves (.*?) to start inside the same white space,
\* and the closing fence it has to reach is the same one.
FenceRest(t, a) ==
  LET s == SkipSpace(t, a)
      e == LazyEnd(t, s)
  IN  IF e = 0 THEN NoMatch ELSE [found |-> TRUE, group |-> SubSeq(t, s, e - 1)]

\* the pattern ```(?:json)?\s*(.*?)\s*``` (re.DOTALL) tried at position p:
\* the optional tag is taken when it is there, and given back if that fails
FenceMatchAt(t, p) ==
  IF ~HasFenceAt(t, p) THEN NoMatch
  ELSE IF p + 3 <= Len(t) /\ t[p + 3] = JsonTag /\ FenceRest(t, p + 4).found
    THEN FenceRest(t, p + 4)
  ELSE FenceRest(t, p + 3)

\* re.search: the match at the leftmost position that has one
RECURSIVE FenceSearchFrom(_, _)
FenceSearchFrom(t, p) ==
  IF p > Len(t) THEN NoMatch
  ELSE IF FenceMatchAt(t, p).found THEN FenceMatchAt(t, p)
  ELSE FenceSearchFrom(t, p + 1)

\* lines 128-138: the text handed to json.loads
StripFences(raw) ==
  LET t == Strip(raw)
      m == FenceSearchFrom(t, 1)
  IN  IF StartsWithFence(t) /\ m.found THEN Strip(m.group) ELSE t

\* len(posts) is defined for a list, a dict and a str only
HasLen(v) == v.k \in {"array", "object", "string"}

\* lines 127-148: what generate_new_posts does with the message content
PostProcess(resp) ==
  IF resp.isNone
  THEN [err |-> "AttributeError", posts |-> NoValue, resultText |-> <<>>,
        diag |-> <<>>]
  ELSE
    LET text == StripFences(resp.text)
        r == JsonLoads(text)
    IN  IF ~r.ok
        THEN [err |-> "JSONDecodeError", posts |-> NoValue, resultText |-> text,
              diag |-> text]
        ELSE IF ~HasLen(r.v)
        THEN [err |-> "TypeError", posts |-> NoValue, resultText |-> text,
              diag |-> <<>>]
        ELSE [err |-> "None", posts |-> r.v, resultText |-> text, diag |-> <<>>]

----------------------------------------------------------------------------
(* store_generated_posts                                                   *)

\* mutant: the existing posts are not loaded
LoadExistingNone(file) == <<>>

\* lines 157-166: existing_posts
LoadExisting(file) ==
  IF ~file.exists THEN <<>>
  ELSE IF \E n \in 1..Len(file.text) : file.text[n] = BadByte THEN <<>>
  ELSE LET r == JsonLoads(file.text)
       IN  IF r.ok /\ r.v.k = "array" THEN r.v.c ELSE <<>>

\* iteration over the argument of list.extend: the items of a list, the keys
\* of a dict, the characters of a str
Iterate(v) ==
  IF v.k = "array" THEN v.c
  ELSE IF v.k = "object" THEN [n \in 1..Len(v.c) |-> JStr(v.c[n][1])]
  ELSE [n \in 1..Len(v.c) |-> JStr(<<v.c[n]>>)]

\* mutant: the new posts are put in front of the existing ones
ExtendFront(existing, p) == Iterate(p) \o existing

\* line 168: existing_posts.extend(posts)
Extend(existing, p) == existing \o Iterate(p)

\* lines 151-171: the store file after store_generated_posts(p, filename)
store_generated_posts(file, p) ==
  File(JsonDump(JArr(Extend(LoadExisting(file), p))))

----------------------------------------------------------------------------
(* analyze_instagram_profile: the context file                             *)

ContextFilename == "instagram_context.txt"
NoPath == "None"

\* line 58: the shareable URL of a post
PostUrl(shortcode) == <<"https://www.instagram.com/p/", shortcode, "/">>

\* lines 56-59: the record kept for a post (caption or "")
PostEntry(post) ==
  [caption |-> IF post.caption = "None" THEN <<>> ELSE <<post.caption>>,
   url |-> PostUrl(post.shortcode)]

RECURSIVE RenderPosts(_)
RenderPosts(ps) ==
  IF ps = <<>> THEN <<>>
  ELSE <<"Post URL: ">> \o Head(ps).url \o <<LF, "Caption: ">> \o Head(ps).caption
       \o <<LF, "----------------------------------------", LF>>
       \o RenderPosts(Tail(ps))

\* lines 61-69: the text written to the context file
RenderContext(u, b, ps) ==
  <<"=== Instagram Profile Context ===", LF, "Username: ">> \o u
  \o <<LF, "Bio: ">> \o b \o <<LF, LF, "=== Past Posts ===", LF>> \o RenderPosts(ps)

----------------------------------------------------------------------------
(* Inputs of the pipeline runs.                                            *)

\* what the operator may type as the profile URL
PipelineUrls ==
  { <<"https://www.", Marker, "/", "u", "/">>,
    <<"https://www.", Marker, "/">>,
    <<"u">> }

\* what the operator may type as the number of posts
CountInputs == {"1", "many"}

DefaultNumPosts == 5

\* lines 178-182: int(num_posts_str), 5 when it is no number
ParseCount(typed) == IF typed = "1" THEN 1 ELSE DefaultNumPosts

\* post records the scraping collaborator may yield
PostRecords ==
  { [caption |-> "C1", shortcode |-> "s1"],
    [caption |-> "None", shortcode |-> "s2"] }

Biographies == {<<"B">>}

Text(t) == [isNone |-> FALSE, text |-> t]
NoContent == [isNone |-> TRUE, text |-> <<>>]

\* message contents the generative collaborator may return to a run
PipelineResponses ==
  { Text(<<"[", QUOTE, "A", QUOTE, "]">>),
    Text(Fence \o <<JsonTag, LF, "[", QUOTE, "B", QUOTE, ",", "1", "]", LF>> \o Fence),
    Text(<<"{", QUOTE, "h", QUOTE, ":", "1", "}">>),
    Text(<<QUOTE, "A", "B", QUOTE>>),
    Text(<<"1">>),
    Text(<<"n", "o">>),
    Text(Fence \o <<JsonTag, LF, "[">>),
    NoContent }

\* contents the store file may have before the first run
PriorStores ==
  { NoFile,
    File(<<"n", "o", "t", SP, "j", "s", "o", "n">>),
    File(<<"{", QUOTE, "p", QUOTE, ":", "[", "1", "]", "}">>),
    File(<<"[", "1", ",", QUOTE, "Z", QUOTE, "]">>),
    File(<<"[", "1", BadByte, "]">>) }

PriorCaches ==
  { NoFile,
    File(RenderContext(<<"old">>, <<"B">>, <<>>)) }

----------------------------------------------------------------------------
(* The pipeline: main and the steps of its callees.                        *)

Ended == pc \in {"idle", "done", "failed"}

Init ==
  /\ pc = "idle"
  /\ runs = 0
  /\ url = <<>>
  /\ num = 0
  /\ username = <<>>
  /\ bio = <<>>
  /\ postsData = <<>>
  /\ contextFile = NoPath
  /\ cache \in PriorCaches
  /\ response = NoContent
  /\ resultText = <<>>
  /\ diag = <<>>
  /\ posts = NoValue
  /\ store \in PriorStores
  /\ err = "None"
  /\ scrapeCalls = 0
  /\ modelCalls = 0
  /\ hist = <<>>
  /\ cacheAtStart = cache
  /\ storeAtStart = store
  /\ appended = <<>>
  /\ storeAtInit = store

Fail(e) == pc' = "failed" /\ err' = e

\* lines 174-185: a run starts, reads its two inputs and calls
\* analyze_instagram_profile
MainStart ==
  /\ Ended
  /\ runs < MaxRuns
  /\ runs' = runs + 1
  /\ \E u \in PipelineUrls : url' = u
  /\ \E typed \in CountInputs : num' = ParseCount(typed)
  /\ pc' = "analyze"
  /\ username' = <<>> /\ bio' = <<>> /\ postsData' = <<>>
  /\ contextFile' = NoPath
  /\ response' = NoContent /\ resultText' = <<>> /\ diag' = <<>>
  /\ posts' = NoValue
  /\ err' = "None"
  /\ scrapeCalls' = 0 /\ modelCalls' = 0
  /\ hist' = <<>>
  /\ cacheAtStart' = cache
  /\ storeAtStart' = store
  /\ UNCHANGED <<cache, store, appended, storeAtInit>>

\* mutant: the URL is parsed before the context file is looked for
AnalyzeCacheHitValidates ==
  /\ pc = "analyze"
  /\ cache.exists
  /\ IF parse_instagram_username(url).ok
     THEN contextFile' = ContextFilename /\ pc' = "generate" /\ err' = err
     ELSE contextFile' = contextFile /\ Fail("ValueError")
  /\ hist' = Append(hist, "cache_hit")
  /\ UNCHANGED <<runs, url, num, username, bio, postsData, cache, response,
                 resultText, diag, posts, store, scrapeCalls, modelCalls,
                 cacheAtStart, storeAtStart, appended, storeAtInit>>

\* lines 34-36: the context file exists and is reused
AnalyzeCacheHit ==
  /\ pc = "analyze"
  /\ cache.exists
  /\ contextFile' = ContextFilename
  /\ pc' = "generate"
  /\ hist' = Append(hist, "cache_hit")
  /\ UNCHANGED <<runs, url, num, username, bio, postsData, cache, response,
                 resultText, diag, posts, store, err, scrapeCalls, modelCalls,
                 cacheAtStart, storeAtStart, appended, storeAtInit>>

\* lines 34, 38: no context file; the username is parsed out of the URL
AnalyzeParse ==
  /\ pc = "analyze"
  /\ ~cache.exists
  /\ LET r == parse_instagram_username(url)
     IN  IF r.ok
         THEN username' = r.name /\ pc' = "resolve" /\ err' = err
         ELSE username' = username /\ Fail("ValueError")
  /\ hist' = Append(hist, "parse")
  /\ UNCHANGED <<runs, url, num, bio, postsData, contextFile, cache, response,
                 resultText, diag, posts, store, scrapeCalls, modelCalls,
                 cacheAtStart, storeAtStart, appended, storeAtInit>>

\* lines 47-48: Profile.from_username returns the profile
LoadProfileOk ==
  /\ pc = "resolve"
  /\ scrapeCalls' = scrapeCalls + 1
  /\ pc' = "bio"
  /\ hist' = Append(hist, "resolve")
  /\ UNCHANGED <<runs, url, num, username, bio, postsData, contextFile, cache,
                 response, resultText, diag, posts, store, err, modelCalls,
                 cacheAtStart, storeAtStart, appended, storeAtInit>>

\* lines 47-50: Profile.from_username raises; the except clause wraps it
LoadProfileFail ==
  /\ pc = "resolve"
  /\ scrapeCalls' = scrapeCalls + 1
  /\ Fail("RuntimeError: Error loading profile")
  /\ hist' = Append(hist, "resolve")
  /\ UNCHANGED <<runs, url, num, username, bio, postsData, contextFile, cache,
                 response, resultText, diag, posts, store, modelCalls,
                 cacheAtStart, storeAtStart, appended, storeAtInit>>

\* line 52: profile.biography is read
ReadBioOk ==
  /\ pc = "bio"
  /\ scrapeCalls' = scrapeCalls + 1
  /\ \E b \in Biographies : bio' = b
  /\ pc' = "iterate"
  /\ hist' = Append(hist, "bio")
  /\ UNCHANGED <<runs, url, num, username, postsData, contextFile, cache,
                 response, resultText, diag, posts, store, err, modelCalls,
                 cacheAtStart, storeAtStart, appended, storeAtInit>>

\* line 52: profile.biography raises; no except clause is around it
ReadBioFail ==
  /\ pc = "bio"
  /\ scrapeCalls' = scrapeCalls + 1
  /\ Fail("InstaloaderException")
  /\ hist' = Append(hist, "bio")
  /\ UNCHANGED <<runs, url, num, username, bio, postsData, contextFile, cache,
                 response, resultText, diag, posts, store, modelCalls,
                 cacheAtStart, storeAtStart, appended, storeAtInit>>

\* lines 55-59: profile.get_posts() yields one more post
IteratePostsNext ==
  /\ pc = "iterate"
  /\ Len(postsData) < MaxPosts
  /\ scrapeCalls' = scrapeCalls + 1
  /\ \E post \in PostRecords : postsData' = Append(postsData, PostEntry(post))
  /\ hist' = Append(hist, "post")
  /\ UNCHANGED <<pc, runs, url, num, username, bio, contextFile, cache, response,
                 resultText, diag, posts, store, err, modelCalls, cacheAtStart,
                 storeAtStart, appended, storeAtInit>>

\* line 55: profile.get_posts() is exhausted
IteratePostsEnd ==
  /\ pc = "iterate"
  /\ scrapeCalls' = scrapeCalls + 1
  /\ pc' = "write"
  /\ hist' = Append(hist, "posts_end")
  /\ UNCHANGED <<runs, url, num, username, bio, postsData, contextFile, cache,
                 response, resultText, diag, posts, store, err, modelCalls,
                 cacheAtStart, storeAtStart, appended, storeAtInit>>

\* mutant: the context file is opened before the loop and written inside it
IteratePostsFailPartial ==
  /\ pc = "iterate"
  /\ scrapeCalls' = scrapeCalls + 1
  /\ Fail("InstaloaderException")
  /\ cache' = File(RenderContext(username, bio, postsData))
  /\ hist' = Append(hist, "post_error")
  /\ UNCHANGED <<runs, url, num, username, bio, postsData, contextFile,
                 response, resultText, diag, posts, store, modelCalls,
                 cacheAtStart, storeAtStart, appended, storeAtInit>>

\* line 55: profile.get_posts() raises; no except clause is around the loop
IteratePostsFail ==
  /\ pc = "iterate"
  /\ scrapeCalls' = scrapeCalls + 1
  /\ Fail("InstaloaderException")
  /\ hist' = Append(hist, "post_error")
  /\ UNCHANGED <<runs, url, num, username, bio, postsData, contextFile, cache,
                 response, resultText, diag, posts, store, modelCalls,
                 cacheAtStart, storeAtStart, appended, storeAtInit>>

\* lines 61-72: the context file is written and its name returned
WriteContext ==
  /\ pc = "write"
  /\ cache' = File(RenderContext(username, bio, postsData))
  /\ contextFile' = ContextFilename
  /\ pc' = "generate"
  /\ hist' = Append(hist, "cache_write")
  /\ UNCHANGED <<runs, url, num, username, bio, postsData, response, resultText,
                 diag, posts, store, err, scrapeCalls, modelCalls, cacheAtStart,
                 storeAtStart, appended, storeAtInit>>

\* lines 85-123: the context is read, the prompt sent, a completion returned
GenerateRequestOk ==
  /\ pc = "generate"
  /\ cache.exists
  /\ modelCalls' = modelCalls + 1
  /\ \E r \in PipelineResponses : response' = r
  /\ pc' = "respond"
  /\ hist' = Append(hist, "model_call")
  /\ UNCHANGED <<runs, url, num, username, bio, postsData, contextFile, cache,
                 resultText, diag, posts, store, err, scrapeCalls, cacheAtStart,
                 storeAtStart, appended, storeAtInit>>

\* lines 115-125: the request raises; the except clause wraps it
GenerateRequestFail ==
  /\ pc = "generate"
  /\ cache.exists
  /\ modelCalls' = modelCalls + 1
  /\ Fail("RuntimeError: OpenAI API request failed")
  /\ hist' = Append(hist, "model_call")
  /\ UNCHANGED <<runs, url, num, username, bio, postsData, contextFile, cache,
                 response, resultText, diag, posts, store, scrapeCalls,
                 cacheAtStart, storeAtStart, appended, storeAtInit>>

\* mutant: a response that cannot be used is taken as no posts, and the run goes on
GeneratePostProcessLenient ==
  /\ pc = "respond"
  /\ LET out == PostProcess(response)
     IN  /\ resultText' = out.resultText
         /\ diag' = out.diag
         /\ posts' = IF out.err = "None" THEN out.posts ELSE JArr(<<>>)
         /\ err' = out.err
         /\ pc' = "store"
  /\ hist' = Append(hist, "parse_response")
  /\ UNCHANGED <<runs, url, num, username, bio, postsData, contextFile, cache,
                 response, store, scrapeCalls, modelCalls, cacheAtStart,
                 storeAtStart, appended, storeAtInit>>

\* lines 127-148: the response is stripped, parsed and returned
GeneratePostProcess ==
  /\ pc = "respond"
  /\ LET out == PostProcess(response)
     IN  /\ resultText' = out.resultText
         /\ diag' = out.diag
         /\ posts' = out.posts
         /\ err' = out.err
         /\ pc' = IF out.err = "None" THEN "store" ELSE "failed"
  /\ hist' = Append(hist, "parse_response")
  /\ UNCHANGED <<runs, url, num, username, bio, postsData, contextFile, cache,
                 response, store, scrapeCalls, modelCalls, cacheAtStart,
                 storeAtStart, appended, storeAtInit>>

\* lines 191-193: store_generated_posts(posts), and the run is complete
StorePosts ==
  /\ pc = "store"
  /\ store' = store_generated_posts(store, posts)
  /\ appended' = appended \o Iterate(posts)
  /\ pc' = "done"
  /\ hist' = Append(hist, "store")
  /\ UNCHANGED <<runs, url, num, username, bio, postsData, contextFile, cache,
                 response, resultText, diag, posts, err, scrapeCalls, modelCalls,
                 cacheAtStart, storeAtStart, storeAtInit>>

\* between runs the operator deletes the context file to force a refresh
DeleteContextFile ==
  /\ Ended
  /\ cache.exists
  /\ cache' = NoFile
  /\ UNCHANGED <<pc, runs, url, num, username, bio, postsData, contextFile,
                 response, resultText, diag, posts, store, err, scrapeCalls,
                 modelCalls, hist, cacheAtStart, storeAtStart, appended, storeAtInit>>

Next ==
  \/ MainStart
  \/ AnalyzeCacheHit
  \/ AnalyzeParse
  \/ LoadProfileOk
  \/ LoadProfileFail
  \/ ReadBioOk
  \/ ReadBioFail
  \/ IteratePostsNext
  \/ IteratePostsEnd
  \/ IteratePostsFail
  \/ WriteContext
  \/ GenerateRequestOk
  \/ GenerateRequestFail
  \/ GeneratePostProcess
  \/ StorePosts
  \/ DeleteContextFile

Spec == Init /\ [][Next]_vars

----------------------------------------------------------------------------
(* parse_instagram_username on its own: every URL of up to MaxUrlLen       *)
(* pieces, handed to a run that finds no context file.                     *)

UrlPieces == {Marker, "/", "?", "#", "a"}

InitURL ==
  /\ pc = "analyze"
  /\ runs = 1
  /\ url \in SeqsUpTo(UrlPieces, MaxUrlLen)
  /\ num = DefaultNumPosts
  /\ username = <<>>
  /\ bio = <<>>
  /\ postsData = <<>>
  /\ contextFile = NoPath
  /\ cache = NoFile
  /\ response = NoContent
  /\ resultText = <<>>
  /\ diag = <<>>
  /\ posts = NoValue
  /\ store \in PriorStores
  /\ err = "None"
  /\ scrapeCalls = 0
  /\ modelCalls = 0
  /\ hist = <<>>
  /\ cacheAtStart = cache
  /\ storeAtStart = store
  /\ appended = <<>>
  /\ storeAtInit = store

SpecURL == InitURL /\ [][AnalyzeParse]_vars

----------------------------------------------------------------------------
(* generate_new_posts on its own: the post-processing of every response    *)
(* of up to MaxRawLen pieces, and of every body of up to MaxBody pieces or  *)
(* sample JSON text inside the fence wrappers.                              *)

RawPieces == {TICK, JsonTag, LF, "[", "]", ",", "1", QUOTE}
BodyPieces == {TICK, LF, "[", "]", "1", QUOTE, "null"}

JsonSamples ==
  { <<"[", QUOTE, "A", QUOTE, ",", SP, QUOTE, "B", QUOTE, "]">>,
    <<"[", QUOTE>> \o Fence \o <<QUOTE, "]">>,
    <<QUOTE>> \o Fence \o <<QUOTE>>,
    <<QUOTE, "x", TICK, TICK, QUOTE>>,
    <<"{", QUOTE, "h", QUOTE, ":", SP, "true", "}">>,
    <<"{", "}">>,
    <<"[", "[", "1", "]", ",", LF, "null", "]">>,
    <<"[", "1", ",", "]">>,
    <<"1", "1">>,
    <<"true">> }

OpeningWrappers ==
  { <<>>, Fence, Fence \o <<JsonTag>>, Fence \o <<JsonTag, LF>>,
    <<LF>> \o Fence \o <<LF>> }

ClosingWrappers ==
  { <<>>, Fence, <<LF>> \o Fence, <<LF>> \o Fence \o <<LF>>,
    <<LF>> \o Fence \o <<"x">> }

GenResponses ==
  SeqsUpTo(RawPieces, MaxRawLen)
  \cup { open \o body \o close :
           open \in OpeningWrappers,
           body \in SeqsUpTo(BodyPieces, MaxBody) \cup JsonSamples,
           close \in ClosingWrappers }

InitGen ==
  /\ pc = "respond"
  /\ runs = 1
  /\ url = <<>>
  /\ num = DefaultNumPosts
  /\ username = <<>>
  /\ bio = <<>>
  /\ postsData = <<>>
  /\ contextFile = ContextFilename
  /\ cache = File(RenderContext(<<"old">>, <<"B">>, <<>>))
  /\ response \in {Text(r) : r \in GenResponses} \cup {NoContent}
  /\ resultText = <<>>
  /\ diag = <<>>
  /\ posts = NoValue
  /\ store = NoFile
  /\ err = "None"
  /\ scrapeCalls = 0
  /\ modelCalls = 1
  /\ hist = <<"cache_hit", "model_call">>
  /\ cacheAtStart = cache
  /\ storeAtStart = store
  /\ appended = <<>>
  /\ storeAtInit = store

SpecGen == InitGen /\ [][GeneratePostProcess]_vars

----------------------------------------------------------------------------
(* store_generated_posts on its own: up to MaxCalls calls in a row, each    *)
(* with a list of up to MaxNew posts.                                       *)

PostA == JStr(<<"A">>)
PostB == JObj(<< <<<<"hook">>, JStr(<<"B">>)>>, <<<<"contents">>, JArr(<<JNull>>)>> >>)

PostLists == SeqsUpTo({PostA, PostB}, MaxNew)

InitStore ==
  /\ pc = "idle"
  /\ runs = 0
  /\ url = <<>>
  /\ num = 0
  /\ username = <<>>
  /\ bio = <<>>
  /\ postsData = <<>>
  /\ contextFile = NoPath
  /\ cache = NoFile
  /\ response = NoContent
  /\ resultText = <<>>
  /\ diag = <<>>
  /\ posts = NoValue
  /\ store \in PriorStores
  /\ err = "None"
  /\ scrapeCalls = 0
  /\ modelCalls = 0
  /\ hist = <<>>
  /\ cacheAtStart = cache
  /\ storeAtStart = store
  /\ appended = <<>>
  /\ storeAtInit = store

\* lines 151-171: one call store_generated_posts(posts) with a list
StoreCall ==
  /\ runs < MaxCalls
  /\ runs' = runs + 1
  /\ \E p \in PostLists :
       /\ posts' = JArr(p)
       /\ store' = store_generated_posts(store, JArr(p))
       /\ appended' = appended \o p
  /\ storeAtStart' = store
  /\ UNCHANGED <<pc, url, num, username, bio, postsData, contextFile, cache,
                 response, resultText, diag, err, scrapeCalls, modelCalls, hist,
                 cacheAtStart, storeAtInit>>

SpecStore == InitStore /\ [][StoreCall]_vars

----------------------------------------------------------------------------
(* The claims.                                                             *)

\* the entries of the PostArchive a store file holds: the items of the JSON
\* array it decodes to; none when it is missing or is no readable JSON array
Readable(file) == \A n \in 1..Len(file.text) : file.text[n] # BadByte

Archive(file) ==
  LET r == JsonLoads(file.text)
  IN  IF file.exists /\ Readable(file) /\ r.ok /\ r.v.k = "array"
      THEN r.v.c
      ELSE <<>>

Has(h, e) == \E n \in 1..Len(h) : h[n] = e

ContextErrors ==
  {"ValueError", "RuntimeError: Error loading profile", "InstaloaderException"}

GenerationErrors ==
  {"RuntimeError: OpenAI API request failed", "AttributeError",
   "JSONDecodeError", "TypeError"}

\* C1: no step of any run truncates or reorders the PostArchive: the entries
\* the store file held before the step are, at the same positions, the
\* first entries it holds after the step (a step that leaves the file as it
\* is needs no decoding).
C1_AppendOnly ==
  [][store' = store \/ IsPrefix(Archive(store), Archive(store'))]_vars

C1_Witness ==
  /\ pc = "done"
  /\ runs = MaxRuns
  /\ Len(Archive(storeAtInit)) > 0
  /\ Len(Archive(storeAtStart)) > Len(Archive(storeAtInit))
  /\ Len(Archive(store)) > Len(Archive(storeAtStart))

\* C2: after a call store_generated_posts(newPosts) with a list, the store
\* file exists and decodes to exactly E ++ newPosts, E being the array the
\* prior file decoded to, or empty when the prior file was missing,
\* unreadable, not JSON or no array; from a missing file, the calls so far
\* leave the concatenation of their lists.
C2_StoreHoldsExistingThenNew ==
  runs > 0 =>
    LET prior == JsonLoads(storeAtStart.text)
        E == IF storeAtStart.exists /\ Readable(storeAtStart) /\ prior.ok
                /\ prior.v.k = "array"
             THEN prior.v.c
             ELSE <<>>
    IN  /\ store.exists
        /\ JsonLoads(store.text) = [ok |-> TRUE, v |-> JArr(E \o posts.c)]
        /\ (~storeAtInit.exists => JsonLoads(store.text).v.c = appended)

C2_Witness ==
  /\ runs = MaxCalls
  /\ ~storeAtInit.exists
  /\ posts = JArr(<<PostB>>)
  /\ appended = <<PostA, PostB>>

\* C3: in a run that finds the context file, no call is made to the
\* scraping collaborator, the URL is not parsed, no error of the context
\* stage arises, the path handed on is the given one and the file keeps
\* its content (until the operator deletes it after the run).
C3_CacheHitIsNoOp ==
  (cacheAtStart.exists /\ pc # "idle") =>
    /\ scrapeCalls = 0
    /\ ~Has(hist, "parse")
    /\ username = <<>>
    /\ err \notin ContextErrors
    /\ (pc # "analyze" => contextFile = ContextFilename)
    /\ (~Ended => cache = cacheAtStart)
    /\ cache \in {cacheAtStart, NoFile}

C3_Witness ==
  /\ runs = MaxRuns
  /\ pc = "done"
  /\ cacheAtStart.exists
  /\ cacheAtStart \notin PriorCaches
  /\ cache = cacheAtStart
  /\ ~parse_instagram_username(url).ok

StageOf(e) ==
  IF e \in {"model_call", "parse_response"} THEN 2
  ELSE IF e = "store" THEN 3
  ELSE 1

\* C4: the steps of a run come in the order context, generation, store;
\* generation starts only after the context stage has returned, the store
\* only after generation has returned; when the context stage fails the
\* model is never called, and when the context or the generation stage
\* fails the store file is left as it was.
C4_StagesInOrderFailFast ==
  /\ \A i \in 1..Len(hist) : \A j \in i..Len(hist) :
       StageOf(hist[i]) <= StageOf(hist[j])
  /\ (Has(hist, "model_call") =>
        /\ Has(hist, "cache_hit") \/ Has(hist, "cache_write")
        /\ contextFile = ContextFilename)
  /\ (Has(hist, "store") => Has(hist, "parse_response") /\ err = "None")
  /\ (err \in ContextErrors =>
        modelCalls = 0 /\ ~Has(hist, "model_call") /\ ~Has(hist, "store"))
  /\ (err \in ContextErrors \cup GenerationErrors =>
        store = storeAtStart /\ ~Has(hist, "store"))

C4_Witness ==
  /\ runs = MaxRuns
  /\ pc = "failed"
  /\ err = "JSONDecodeError"
  /\ response = Text(<<"n", "o">>)
  /\ Len(Archive(storeAtStart)) > Len(Archive(storeAtInit))
  /\ store = storeAtStart

ScrapeFailed ==
  /\ pc = "failed"
  /\ hist # <<>>
  /\ hist[Len(hist)] \in {"resolve", "bio", "post_error"}

\* C5: on a cache miss, a failure of the scraping collaborator at any point
\* (resolving the profile, reading the biography, iterating the posts) ends
\* analyze_instagram_profile with the RuntimeError "Error loading profile".
C5_EveryScrapeFailureIsProfileLoadError ==
  ScrapeFailed => err = "RuntimeError: Error loading profile"

PostProcessed == Has(hist, "parse_response") /\ ~response.isNone

\* C6: when the response is not valid JSON after fence-stripping,
\* generate_new_posts fails with the JSON decode error, after one model call,
\* and the diagnostic carries the response text as the model returned it,
\* before fence-stripping (read up to the white space around the text).
C6_DiagnosticCarriesRawResponse ==
  (PostProcessed /\ ~JsonLoads(StripFences(response.text)).ok) =>
    /\ pc = "failed"
    /\ err = "JSONDecodeError"
    /\ modelCalls = 1
    /\ Strip(diag) = Strip(response.text)

\* where the content of a fenced text starts: after the opening fence and
\* the tag json, when there is one
ContentStart(t) == IF Len(t) >= 4 /\ t[4] = JsonTag THEN 5 ELSE 4

ClosingFences(t) == {q \in ContentStart(t)..Len(t) : HasFenceAt(t, q)}

\* the text the claim says is parsed
ClaimedParsedText(raw) ==
  LET t == Strip(raw)
  IN  IF StartsWithFence(t) /\ ClosingFences(t) # {}
      THEN LET q == CHOOSE q \in ClosingFences(t) :
                      \A r \in ClosingFences(t) : q <= r
           IN  Strip(SubSeq(t, ContentStart(t), q - 1))
      ELSE t

FencedJson(J) == Fence \o <<JsonTag, LF>> \o J \o <<LF>> \o Fence

\* the text inside a response of the form ```json LF J LF ```
Inner(raw) == SubSeq(raw, 6, Len(raw) - 4)

IsFencedJson(raw) ==
  /\ Len(raw) >= 9
  /\ raw = FencedJson(Inner(raw))
  /\ JsonLoads(Inner(raw)).ok

\* the text parsed is the trimmed response, or, when that starts with a
\* fence and a closing fence follows, what is between the opening fence
\* (with its tag json) and the first closing fence
C7_ParsedTextIsFenceContent ==
  PostProcessed => resultText = ClaimedParsedText(response.text)

\* a fenced JSON text decodes to what the bare JSON text decodes to
C7_FencedDecodesAsBare ==
  (PostProcessed /\ IsFencedJson(response.text)) =>
    JsonLoads(resultText) = JsonLoads(Inner(response.text))

\* C7: the text parsed is the trimmed response with its fence, if any,
\* removed, and for every JSON text J the response ```json LF J LF ```
\* decodes to the same value as the response J.
C7_FenceStripping == C7_ParsedTextIsFenceContent /\ C7_FencedDecodesAsBare

\* C8: whenever the fence-stripped response is valid JSON, generate_new_posts
\* succeeds and returns the decoded value, whatever its shape.
C8_AnyJsonValueIsReturned ==
  (PostProcessed /\ JsonLoads(StripFences(response.text)).ok) =>
    /\ pc = "store"
    /\ err = "None"
    /\ posts = JsonLoads(StripFences(response.text)).v

\* the URL is prefix, "instagram.com", "/", id, rest: the host marker at i is
\* the first one, id is SubSeq(u, i + 2, j), not empty and free of '/', '?'
\* and '#', and the text ends, or one of the three comes, right after it
HasForm(u, i, j) ==
  /\ i + 2 <= j /\ j <= Len(u)
  /\ u[i] = Marker
  /\ \A n \in 1..(i - 1) : u[n] # Marker
  /\ u[i + 1] = "/"
  /\ \A n \in (i + 2)..j : u[n] \notin {"/", "?", "#"}
  /\ (j = Len(u) \/ u[j + 1] \in {"/", "?", "#"})

\* nowhere in the URL is the host marker followed by "/" and an identifier
LacksHostPattern(u) ==
  \A i \in 1..Len(u) :
    ~(u[i] = Marker /\ i + 2 <= Len(u) /\ u[i + 1] = "/"
      /\ u[i + 2] \notin {"/", "?", "#"})

C10_CacheWrittenAfterDrain ==
  /\ (~cacheAtStart.exists /\ cache.exists) =>
       \E i \in 1..Len(hist) : \E j \in (i + 1)..Len(hist) :
         /\ hist[i] = "posts_end"
         /\ hist[j] = "cache_write"
         /\ \A n \in (i + 1)..Len(hist) : hist[n] \notin {"post", "post_error"}
  /\ (err \in ContextErrors => ~cache.exists)
  /\ (~cacheAtStart.exists /\ (Has(hist, "model_call") \/ pc = "generate")) =>
       Has(hist, "resolve") /\ Has(hist, "posts_end")

C10_Witness ==
  /\ runs = MaxRuns
  /\ ScrapeFailed
  /\ hist[Len(hist)] = "post_error"
  /\ Len(postsData) = MaxPosts
  /\ ~cache.exists

====
